---- MODULE Spec2Model ----
(***************************************************************************)
(* A model of the agent-execution engine of OpenManus:                     *)
(*   - Memory               (app/schema.py)                                *)
(*   - BaseAgent.run        (app/agent/base.py)                            *)
(*   - ReActAgent.step      (app/agent/react.py)                           *)
(*   - ToolCallAgent        (app/agent/toolcall.py)                        *)
(*   - ToolCollection       (app/tool/tool_collection.py)                  *)
(*   - PlanningTool         (app/tool/planning.py)                         *)
(*                                                                         *)
(* Text is modelled as a sequence of fragments (strings and numbers kept   *)
(* apart as they are in the f-strings of the source), so two texts are     *)
(* equal exactly when they are built from the same fragments.              *)
(*                                                                         *)
(* The coroutine of run() is cut at its suspension points, the awaited     *)
(* language-model call and the awaited tool call: the code between two     *)
(* awaits is one atomic action, as it is under asyncio.                    *)
(***************************************************************************)
EXTENDS Integers, Sequences, FiniteSets, TLC

VARIABLES
    \* ---- BaseAgent / ToolCallAgent fields
    state,          \* BaseAgent.state
    current_step,   \* BaseAgent.current_step
    messages,       \* BaseAgent.memory.messages
    max_messages,   \* BaseAgent.memory.max_messages
    tool_calls,     \* ToolCallAgent.tool_calls
    tool_choices,   \* ToolCallAgent.tool_choices
    next_step_prompt, \* BaseAgent.next_step_prompt
    \* ---- position of the run() coroutine
    pc,             \* "idle" | "loop" | "llm" | "tool"
    previous_state, \* local of state_context
    call_idx,       \* index of the for loop of act()
    results,        \* local `results` of act()
    \* ---- what the callers observed (history, not read by the program)
    obs,            \* record of the last run(), think(), execute_tool()
    n_runs,         \* number of run() calls that entered the loop so far
    env,            \* what the surroundings do: [runs, calls], the number of
                    \* run() calls made and of tool calls the model returns
    \* ---- PlanningTool fields
    plans,          \* PlanningTool.plans
    current_plan_id,\* PlanningTool._current_plan_id
    reply,          \* the last PlanningTool command and what it returned or raised
    \* ---- Memory driven alone
    added,          \* every message handed to add_message, in order
    \* ---- PlanningFlow
    flow,           \* PlanningFlow.execute: its position, its fields and what
                    \* its caller observed
    \* ---- PlanningAgent
    planner         \* the fields PlanningAgent adds to ToolCallAgent, and what
                    \* its last act() did

avars == <<state, current_step, messages, max_messages, tool_calls, tool_choices,
           next_step_prompt, pc, previous_state, call_idx, results, obs, n_runs, env>>
pvars == <<plans, current_plan_id, reply>>
mvars == <<added>>
fvars == <<flow>>
gvars == <<planner>>
vars == <<avars, pvars, mvars, fvars, gvars>>

----------------------------------------------------------------------------
(* Bounds of the model *)
MaxRuns == 2
MaxCalls == 2
MaxAdds == 5
MaxCap == 3
MaxCmds == 3
AgentCap == 2
max_steps == 2

(* Program constants *)
duplicate_threshold == 2

None == "<None>"

Min(a, b) == IF a <= b THEN a ELSE b

\* the last n elements of s (none when n = 0)
LastN(s, n) == IF n >= Len(s) THEN s ELSE SubSeq(s, Len(s) - n + 1, Len(s))

AgentState == {"IDLE", "RUNNING", "FINISHED", "ERROR"}
ToolChoice == {"none", "auto", "required"}

TOOL_CALL_REQUIRED == <<"Tool calls required but none provided">>

----------------------------------------------------------------------------
(* Messages (app/schema.py) *)

Message(role, content, calls, name, id) ==
    [role |-> role, content |-> content, tool_calls |-> calls,
     name |-> name, tool_call_id |-> id]

user_message(content) == Message("user", content, <<>>, None, None)
system_message(content) == Message("system", content, <<>>, None, None)
assistant_message(content) == Message("assistant", content, <<>>, None, None)
tool_message(content, name, id) == Message("tool", content, <<>>, name, id)
from_tool_calls(content, calls) == Message("assistant", content, calls, None, None)

\* Python's s[-n:] : the last n elements, and the whole of s when n = 0
\* (-0 is 0) or when n >= len(s).
LastSlice(s, n) ==
    IF n = 0 \/ n >= Len(s) THEN s ELSE SubSeq(s, Len(s) - n + 1, Len(s))

\* a bug: the slice keeps the oldest messages
add_message_keep_oldest(msgs, cap, m) ==
    LET all == Append(msgs, m)
    IN  IF Len(all) > cap THEN SubSeq(all, 1, cap) ELSE all

add_message(msgs, cap, m) ==
    LET all == Append(msgs, m)
    IN  IF Len(all) > cap THEN LastSlice(all, cap) ELSE all

----------------------------------------------------------------------------
(* Tools (app/tool/base.py, app/tool/tool_collection.py) *)

\* The tools the agent is given (those of SWEAgent that differ in kind): bash
\* is an ordinary tool, terminate is the special one.  tool_map is keyed by
\* the tools' own names and looked up as written.
tool_map == {"bash", "terminate"}
special_tool_names == {"terminate"}

\* str.lower() on the names of the model
Lower(name) ==
    CASE name = "Terminate" -> "terminate"
      [] name = "SEARCH" -> "search"
      [] OTHER -> name

\* What the awaited tool does: it returns a non-empty string, returns an empty
\* ToolResult, raises ToolError, or raises another exception.
ToolOutcome == {"output", "empty", "tool_error", "exception"}

\* json.loads(arguments or "{}") : "" and "{}" give a mapping, "[1]" parses to
\* a list, "{bad" raises JSONDecodeError.
JsonLoads(arguments) ==
    CASE arguments = "" -> [ok |-> TRUE, mapping |-> TRUE]
      [] arguments = "{}" -> [ok |-> TRUE, mapping |-> TRUE]
      [] arguments = "[1]" -> [ok |-> TRUE, mapping |-> FALSE]
      [] OTHER -> [ok |-> FALSE, mapping |-> FALSE]

\* ToolResult / ToolFailure / a plain string, with __bool__ and __str__
StrResult(text) == [kind |-> "str", output |-> text, error |-> <<>>]
ToolResult(output) == [kind |-> "ToolResult", output |-> output, error |-> <<>>]
ToolFailure(error) == [kind |-> "ToolFailure", output |-> <<>>, error |-> error]

Truthy(result) == result.output # <<>> \/ result.error # <<>>

Str(result) ==
    IF result.kind = "str" THEN result.output
    ELSE IF result.error # <<>> THEN <<"Error: ">> \o result.error
    ELSE result.output

\* ToolCollection.execute: the tool's result, a ToolError turned into a
\* ToolFailure, any other exception let through.  A tool_input that is no
\* mapping makes tool(**tool_input) raise TypeError.
ToolCollection_execute(name, mapping, outcome) ==
    IF name \notin tool_map
    THEN [raised |-> FALSE, result |-> ToolFailure(<<"Tool ", name, " is invalid">>),
          error |-> <<>>]
    ELSE IF ~mapping
    THEN [raised |-> TRUE, result |-> ToolResult(<<>>), error |-> <<"TypeError">>]
    ELSE CASE outcome = "output" ->
                [raised |-> FALSE, result |-> StrResult(<<"out">>), error |-> <<>>]
           [] outcome = "empty" ->
                [raised |-> FALSE, result |-> ToolResult(<<>>), error |-> <<>>]
           [] outcome = "tool_error" ->
                [raised |-> FALSE, result |-> ToolFailure(<<"boom">>), error |-> <<>>]
           [] OTHER ->
                [raised |-> TRUE, result |-> ToolResult(<<>>), error |-> <<"crash">>]

----------------------------------------------------------------------------
(* ToolCallAgent (app/agent/toolcall.py) *)

ToolCall(id, name, arguments) == [id |-> id, name |-> name, arguments |-> arguments]

is_special_tool(name) == Lower(name) \in {Lower(n) : n \in special_tool_names}

should_finish_execution(name, result) == TRUE

\* _handle_special_tool: the agent's state after it
handle_special_tool(name, result, st) ==
    IF ~is_special_tool(name) THEN st
    ELSE IF should_finish_execution(name, result) THEN "FINISHED"
    ELSE st

\* execute_tool(command): the observation it returns, the agent's state after
\* it, and the branch taken.  `raised` is whether execute_tool itself raised.
\* The warning sign of the source's message is written (!), its backquotes '.
execute_tool(command, outcome, st) ==
    LET name == command.name
        args == JsonLoads(command.arguments)
        r == ToolCollection_execute(name, args.mapping, outcome)
    IN  IF name = ""
        THEN [observation |-> <<"Error: ", "Invalid command format">>,
              state |-> st, path |-> "invalid", raised |-> FALSE]
        ELSE IF name \notin tool_map
        THEN [observation |-> <<"Error: ", "Unknown tool '", name, "'">>,
              state |-> st, path |-> "unknown", raised |-> FALSE]
        ELSE IF ~args.ok
        THEN [observation |-> <<"Error: ", "Error parsing arguments for ", name,
                                ": Invalid JSON format">>,
              state |-> st, path |-> "json", raised |-> FALSE]
        ELSE IF r.raised
        THEN [observation |-> <<"Error: ", "(!) Tool '", name,
                                "' encountered a problem: ">> \o r.error,
              state |-> st, path |-> "exception", raised |-> FALSE]
        ELSE [observation |->
                 IF Truthy(r.result)
                 THEN <<"Observed output of cmd '", name, "' executed:\n">>
                      \o Str(r.result)
                 ELSE <<"Cmd '", name, "' completed with no output">>,
              state |-> handle_special_tool(name, r.result, st),
              path |-> IF r.result.kind = "ToolFailure" THEN "failure" ELSE "success",
              raised |-> FALSE]

\* think() after the awaited model call: Memory afterwards and the value
\* think() returns.  self.tool_calls is set to the response's calls before
\* the mode is looked at.
think(msgs, cap, mode, content, calls) ==
    IF mode = "none"
    THEN IF content # <<>>
         THEN [messages |-> add_message(msgs, cap, assistant_message(content)),
               should_act |-> TRUE]
         ELSE [messages |-> msgs, should_act |-> FALSE]
    ELSE LET assistant_msg == IF calls # <<>> THEN from_tool_calls(content, calls)
                              ELSE assistant_message(content)
         IN  [messages |-> add_message(msgs, cap, assistant_msg),
              should_act |->
                 IF mode = "required" /\ calls = <<>> THEN TRUE
                 ELSE IF mode = "auto" /\ calls = <<>> THEN content # <<>>
                 ELSE calls # <<>>]

\* the tool calls think() leaves in self.tool_calls
think_tool_calls(mode, calls) == calls

\* a bug: act() returns the last message's content in every mode
act_raises_silent(mode, calls) == FALSE

\* act() with no tool call: whether it raises ValueError(TOOL_CALL_REQUIRED)
act_raises(mode, calls) == calls = <<>> /\ mode = "required"

----------------------------------------------------------------------------
(* BaseAgent (app/agent/base.py) *)

STUCK_PROMPT == <<"You seem to be stuck in a loop. Please try a different approach.">>

\* a bug: Memory must hold more than duplicate_threshold messages
is_stuck_strict_length(msgs) ==
    IF Len(msgs) <= duplicate_threshold THEN FALSE
    ELSE LET recent == LastSlice(msgs, duplicate_threshold)
         IN  \A i \in 2..Len(recent) : recent[i].content = recent[1].content

is_stuck(msgs) ==
    IF Len(msgs) < duplicate_threshold THEN FALSE
    ELSE LET recent == LastSlice(msgs, duplicate_threshold)
         IN  \A i \in 2..Len(recent) : recent[i].content = recent[1].content

\* run() after step() has returned: the stuck check and handle_stuck_state
after_step(msgs, cap) ==
    IF is_stuck(msgs) THEN add_message(msgs, cap, system_message(STUCK_PROMPT))
    ELSE msgs

\* a bug: the guard rejects only a RUNNING agent
run_allowed_unless_running(st) == st # "RUNNING"

\* the guard of run()
run_allowed(st) == st = "IDLE"

\* a bug: an off-by-one in the while condition
loop_cond_off_by_one(cs, st) == cs <= max_steps /\ st # "FINISHED"

\* the while condition of run()
loop_cond(cs, st) == cs < max_steps /\ st # "FINISHED"

\* a bug: the previous state is assigned only when the block raised
state_context_exit_keeps(st, prev, raised) == IF raised THEN prev ELSE st

\* state_context on leaving the with block: the except clause sets ERROR when
\* the block raised, then the finally clause assigns previous_state.
state_context_exit(st, prev, raised) ==
    LET after_except == IF raised THEN "ERROR" ELSE st
        after_finally == prev
    IN  after_finally

----------------------------------------------------------------------------
(* PlanningTool (app/tool/planning.py) *)

\* Python's str() of the small numbers of the model
ToStr(n) == IF n = -1 THEN "-1" ELSE <<"0", "1", "2", "3", "4", "5", "6">>[n + 1]

\* the marker of a status; the source's check mark is written v, its arrow >
status_marker(status) ==
    CASE status = "not_started" -> "[ ]"
      [] status = "in_progress" -> "[>]"
      [] status = "completed" -> "[v]"
      [] status = "blocked" -> "[!]"
      [] OTHER -> "[-]"

RECURSIVE CountCompleted(_)
CountCompleted(statuses) ==
    IF statuses = <<>> THEN 0
    ELSE (IF Head(statuses) = "completed" THEN 1 ELSE 0)
         + CountCompleted(Tail(statuses))

\* the lines of one step: "i. marker text", then its notes if any
RECURSIVE StepLines(_, _)
StepLines(plan, i) ==
    IF i > Min(Len(plan.steps), Min(Len(plan.step_statuses), Len(plan.step_notes)))
    THEN <<>>
    ELSE << <<ToStr(i - 1), ". ", status_marker(plan.step_statuses[i]), " ",
              plan.steps[i]>> >>
         \o (IF plan.step_notes[i] # ""
             THEN << <<"   Notes: ", plan.step_notes[i]>> >> ELSE <<>>)
         \o StepLines(plan, i + 1)

\* _format_plan: the lines of the rendered plan
format_plan(plan) ==
    << <<"Plan: ", plan.plan_id, " - ", plan.title>>, <<>>, <<"Steps:">> >>
    \o StepLines(plan, 1)
    \o << <<>>,
          <<"Progress: ", ToStr(CountCompleted(plan.step_statuses)), "/",
            ToStr(Len(plan.steps)), " steps completed">> >>

\* the dict `plans`, kept in insertion order
HasPlan(ps, id) == \E i \in 1..Len(ps) : ps[i].plan_id = id
PlanIndex(ps, id) == CHOOSE i \in 1..Len(ps) : ps[i].plan_id = id
PlanOf(ps, id) == ps[PlanIndex(ps, id)]
RemovePlan(ps, id) ==
    LET i == PlanIndex(ps, id)
    IN  SubSeq(ps, 1, i - 1) \o SubSeq(ps, i + 1, Len(ps))

\* results of a command: a ToolResult, or a raised ToolError
Done(ps, cur, text) == [ok |-> TRUE, plans |-> ps, current |-> cur, text |-> text]
ToolError(ps, cur, text) == [ok |-> FALSE, plans |-> ps, current |-> cur, text |-> text]

\* arguments: plan_id, title, step_status and step_notes are strings or None;
\* steps is [kind, items] with kind "none", "list", "notlist" (a string) or
\* "badlist" (a list holding a non-string); step_index is [none, v].
Falsy(x) == x = None \/ x = ""
StepsFalsy(steps) == steps.kind = "none" \/ (steps.kind = "list" /\ steps.items = <<>>)
IndexFalsy(index) == index.none \/ index.v = 0

\* a bug: create leaves the active pointer where it was
create_plan_keeps_active(ps, cur, plan_id, title, steps) ==
    IF Falsy(plan_id) \/ HasPlan(ps, plan_id) \/ Falsy(title)
       \/ StepsFalsy(steps) \/ steps.kind # "list"
    THEN ToolError(ps, cur, <<"create failed">>)
    ELSE Done(Append(ps, [plan_id |-> plan_id, title |-> title, steps |-> steps.items,
                          step_statuses |-> [i \in 1..Len(steps.items) |-> "not_started"],
                          step_notes |-> [i \in 1..Len(steps.items) |-> ""]]),
              cur, <<>>)

\* a bug: create with the id of a stored plan replaces that plan
create_plan_overwrites(ps, cur, plan_id, title, steps) ==
    IF Falsy(plan_id) \/ Falsy(title) \/ StepsFalsy(steps) \/ steps.kind # "list"
    THEN ToolError(ps, cur, <<"create failed">>)
    ELSE LET plan == [plan_id |-> plan_id, title |-> title, steps |-> steps.items,
                      step_statuses |-> [i \in 1..Len(steps.items) |-> "not_started"],
                      step_notes |-> [i \in 1..Len(steps.items) |-> ""]]
         IN  IF HasPlan(ps, plan_id)
             THEN Done([ps EXCEPT ![PlanIndex(ps, plan_id)] = plan], plan_id, <<>>)
             ELSE Done(Append(ps, plan), plan_id, <<>>)

create_plan(ps, cur, plan_id, title, steps) ==
    IF Falsy(plan_id)
    THEN ToolError(ps, cur, <<"Parameter plan_id is required for command: create">>)
    ELSE IF HasPlan(ps, plan_id)
    THEN ToolError(ps, cur, <<"A plan with ID '", plan_id, "' already exists.">>)
    ELSE IF Falsy(title)
    THEN ToolError(ps, cur, <<"Parameter title is required for command: create">>)
    ELSE IF StepsFalsy(steps) \/ steps.kind # "list"
    THEN ToolError(ps, cur, <<"Parameter steps must be a non-empty list of strings">>)
    ELSE LET plan == [plan_id |-> plan_id, title |-> title, steps |-> steps.items,
                      step_statuses |-> [i \in 1..Len(steps.items) |-> "not_started"],
                      step_notes |-> [i \in 1..Len(steps.items) |-> ""]]
         IN  Done(Append(ps, plan), plan_id,
                  << <<"Plan created successfully with ID: ", plan_id>>, <<>> >>
                  \o format_plan(plan))

\* a bug: a new steps list resets every status and note
update_plan_resets_all(ps, cur, plan_id, title, steps) ==
    IF Falsy(plan_id) \/ ~HasPlan(ps, plan_id)
    THEN ToolError(ps, cur, <<"update failed">>)
    ELSE LET k == PlanIndex(ps, plan_id)
             titled == IF Falsy(title) THEN ps[k] ELSE [ps[k] EXCEPT !.title = title]
             new == [titled EXCEPT
                       !.steps = steps.items,
                       !.step_statuses = [i \in 1..Len(steps.items) |-> "not_started"],
                       !.step_notes = [i \in 1..Len(steps.items) |-> ""]]
         IN  IF StepsFalsy(steps) THEN Done([ps EXCEPT ![k] = titled], cur, <<>>)
             ELSE IF steps.kind # "list"
             THEN ToolError([ps EXCEPT ![k] = titled], cur, <<"update failed">>)
             ELSE Done([ps EXCEPT ![k] = new], cur, <<>>)

update_plan(ps, cur, plan_id, title, steps) ==
    IF Falsy(plan_id)
    THEN ToolError(ps, cur, <<"Parameter plan_id is required for command: update">>)
    ELSE IF ~HasPlan(ps, plan_id)
    THEN ToolError(ps, cur, <<"No plan found with ID: ", plan_id>>)
    ELSE LET k == PlanIndex(ps, plan_id)
             old == ps[k]
             titled == IF Falsy(title) THEN old ELSE [old EXCEPT !.title = title]
             kept(i) == i <= Len(old.steps) /\ steps.items[i] = old.steps[i]
             new == [titled EXCEPT
                       !.steps = steps.items,
                       !.step_statuses =
                          [i \in 1..Len(steps.items) |->
                              IF kept(i) THEN old.step_statuses[i] ELSE "not_started"],
                       !.step_notes =
                          [i \in 1..Len(steps.items) |->
                              IF kept(i) THEN old.step_notes[i] ELSE ""]]
         IN  IF StepsFalsy(steps)
             THEN Done([ps EXCEPT ![k] = titled], cur,
                       << <<"Plan updated successfully: ", plan_id>>, <<>> >>
                       \o format_plan(titled))
             ELSE IF steps.kind # "list"
             THEN ToolError([ps EXCEPT ![k] = titled], cur,
                            <<"Parameter steps must be a list of strings">>)
             ELSE Done([ps EXCEPT ![k] = new], cur,
                       << <<"Plan updated successfully: ", plan_id>>, <<>> >>
                       \o format_plan(new))

RECURSIVE ListLines(_, _, _)
ListLines(ps, cur, i) ==
    IF i > Len(ps) THEN <<>>
    ELSE << <<ps[i].plan_id, IF ps[i].plan_id = cur THEN " (active)" ELSE "", ": ",
              ps[i].title, " - ", ToStr(CountCompleted(ps[i].step_statuses)), "/",
              ToStr(Len(ps[i].steps)), " steps completed">> >>
         \o ListLines(ps, cur, i + 1)

list_plans(ps, cur) ==
    IF ps = <<>>
    THEN Done(ps, cur, << <<"No plans available. Create a plan with the 'create' command.">> >>)
    ELSE Done(ps, cur, << <<"Available plans:">> >> \o ListLines(ps, cur, 1))

get_plan(ps, cur, plan_id) ==
    IF Falsy(plan_id) /\ Falsy(cur)
    THEN ToolError(ps, cur, <<"No active plan.">>)
    ELSE LET id == IF Falsy(plan_id) THEN cur ELSE plan_id
         IN  IF ~HasPlan(ps, id)
             THEN ToolError(ps, cur, <<"No plan found with ID: ", id>>)
             ELSE Done(ps, cur, format_plan(PlanOf(ps, id)))

\* a bug: the pointer is set without looking for the plan
set_active_plan_unchecked(ps, cur, plan_id) ==
    IF Falsy(plan_id)
    THEN ToolError(ps, cur, <<"Parameter plan_id is required for command: set_active">>)
    ELSE Done(ps, plan_id, << <<"Plan '", plan_id, "' is now active.">> >>)

set_active_plan(ps, cur, plan_id) ==
    IF Falsy(plan_id)
    THEN ToolError(ps, cur, <<"Parameter plan_id is required for command: set_active">>)
    ELSE IF ~HasPlan(ps, plan_id)
    THEN ToolError(ps, cur, <<"No plan found with ID: ", plan_id>>)
    ELSE Done(ps, plan_id, << <<"Plan '", plan_id, "' is now active.">> >>)

\* the first check of _mark_step: `if not step_index`
index_missing(index) == IndexFalsy(index)

mark_step(ps, cur, plan_id, index, step_status, step_notes) ==
    IF index_missing(index)
    THEN ToolError(ps, cur, <<"Parameter step_index is required for command: mark_step">>)
    ELSE IF Falsy(step_status)
    THEN ToolError(ps, cur, <<"Parameter step_status is required for command: mark_step">>)
    ELSE IF Falsy(plan_id) /\ Falsy(cur)
    THEN ToolError(ps, cur, <<"No active plan.">>)
    ELSE LET id == IF Falsy(plan_id) THEN cur ELSE plan_id
         IN  IF ~HasPlan(ps, id)
             THEN ToolError(ps, cur, <<"No plan found with ID: ", id>>)
             ELSE LET k == PlanIndex(ps, id)
                      i == index.v + 1
                      marked == [ps[k] EXCEPT !.step_statuses[i] = step_status]
                      noted == IF Falsy(step_notes) THEN marked
                               ELSE [marked EXCEPT !.step_notes[i] = step_notes]
                  IN  IF index.v < 0 \/ index.v >= Len(ps[k].steps)
                      THEN ToolError(ps, cur, <<"Invalid step_index: ", ToStr(index.v),
                                               ". Must be between 0 and ",
                                               ToStr(Len(ps[k].steps) - 1)>>)
                      ELSE Done([ps EXCEPT ![k] = noted], cur,
                                << <<"Updated step ", ToStr(index.v), " in plan '", id, "'">>,
                                   <<>> >> \o format_plan(noted))

\* a bug: delete leaves the active pointer at the deleted plan
delete_plan_keeps_active(ps, cur, plan_id) ==
    IF Falsy(plan_id) \/ ~HasPlan(ps, plan_id)
    THEN ToolError(ps, cur, <<"delete failed">>)
    ELSE Done(RemovePlan(ps, plan_id), cur, <<>>)

delete_plan(ps, cur, plan_id) ==
    IF Falsy(plan_id)
    THEN ToolError(ps, cur, <<"Parameter plan_id is required for command: delete">>)
    ELSE IF ~HasPlan(ps, plan_id)
    THEN ToolError(ps, cur, <<"No plan found with ID: ", plan_id>>)
    ELSE Done(RemovePlan(ps, plan_id), IF cur = plan_id THEN None ELSE cur,
              << <<"Plan '", plan_id, "' deleted successfully.">> >>)

\* PlanningTool.execute: the dispatch on the command
execute(ps, cur, a) ==
    CASE a.command = "create" -> create_plan(ps, cur, a.plan_id, a.title, a.steps)
      [] a.command = "update" -> update_plan(ps, cur, a.plan_id, a.title, a.steps)
      [] a.command = "list" -> list_plans(ps, cur)
      [] a.command = "get" -> get_plan(ps, cur, a.plan_id)
      [] a.command = "set_active" -> set_active_plan(ps, cur, a.plan_id)
      [] a.command = "mark_step" ->
            mark_step(ps, cur, a.plan_id, a.step_index, a.step_status, a.step_notes)
      [] a.command = "delete" -> delete_plan(ps, cur, a.plan_id)
      [] OTHER -> ToolError(ps, cur, <<"Unrecognized command: ", a.command>>)


----------------------------------------------------------------------------
(* What the language model and the callers can hand to the agent *)

CallIds == <<"call_1", "call_2", "call_3", "call_4", "call_5", "call_6",
            "call_7", "call_8", "call_9", "call_10", "call_11", "call_12",
            "call_13", "call_14", "call_15", "call_16", "call_17", "call_18">>

\* <<name, arguments>> of one tool call: "" is a call without a function
\* name, "foo" and "Terminate" are registered nowhere.
CallChoices ==
    { <<"", "{}">>, <<"foo", "{}">>, <<"bash", "{}">>, <<"bash", "{bad">>,
      <<"bash", "[1]">>, <<"terminate", "">>, <<"terminate", "{bad">>,
      <<"Terminate", "{}">> }

\* the calls that can follow the first one of a turn
LaterChoices == { <<"bash", "{}">> }

\* the tool calls of one model turn: ids are unique within the turn
CallSeqs(most) ==
    UNION { { [i \in 1..n |-> ToolCall(CallIds[i], f[i][1], f[i][2])] :
              f \in { g \in [1..n -> CallChoices] :
                         \A i \in 2..n : g[i] \in LaterChoices } } :
            n \in 0..most }

Contents == { <<>>, <<"thought">> }
Requests == { <<>>, <<"task">> }
NEXT_STEP_PROMPT == <<"next">>

NoExec ==
    [name |-> None, id |-> None, path |-> "none", before |-> "IDLE",
     after |-> "IDLE", observation |-> <<>>, raised |-> FALSE]

NoObs ==
    [run |-> "none", error |-> <<>>, rejected |-> FALSE, think |-> "none",
     exec |-> NoExec]

----------------------------------------------------------------------------
(* The agent: BaseAgent.run over ReActAgent.step over ToolCallAgent *)

InitAgent ==
    /\ state \in AgentState
    /\ current_step = 0
    /\ messages = <<>>
    /\ max_messages = AgentCap
    /\ tool_calls = <<>>
    /\ tool_choices \in ToolChoice
    /\ next_step_prompt = NEXT_STEP_PROMPT
    /\ pc = "idle"
    /\ previous_state = "IDLE"
    /\ call_idx = 1
    /\ results = <<>>
    /\ obs = NoObs
    /\ n_runs = 0
    /\ env \in {[runs |-> MaxRuns, calls |-> 1], [runs |-> 1, calls |-> MaxCalls]}

NoArgs ==
    [command |-> "none", plan_id |-> None, title |-> None,
     steps |-> [kind |-> "none", items |-> <<>>],
     step_index |-> [none |-> TRUE, v |-> 0],
     step_status |-> None, step_notes |-> None]

InitPlanIdle ==
    /\ plans = <<>>
    /\ current_plan_id = None
    /\ reply = [n |-> 0, command |-> "none", ok |-> TRUE, text |-> <<>>]

\* the agent of a behaviour that only drives the Plan Store or a Memory
InitAgentIdle ==
    /\ InitAgent
    /\ state = "IDLE"
    /\ tool_choices = "auto"
    /\ env.calls = 1

InitMemoryIdle == added = <<>>

\* a PlanningFlow whose execute() has not been called
NoFlow ==
    [pc |-> "idle", current_step_index |-> [none |-> TRUE, v |-> 0],
     input |-> FALSE, fresh |-> TRUE, response |-> {}, last_run |-> "none",
     n_exec |-> 0, finalized |-> 0, result |-> "none",
     agents |-> <<"default">>, executor_keys |-> <<"default">>,
     primary_agent_key |-> "default", step_type |-> None, executor |-> None,
     agent_steps |-> [k \in {"default"} |-> 0]]

\* a PlanningAgent before its first step
NoPlanner ==
    [active_plan_id |-> None, current_step_index |-> [none |-> TRUE, v |-> 0],
     step_execution_tracker |-> <<>>,
     act |-> [id |-> None, path |-> "none", index |-> [none |-> TRUE, v |-> 0],
              marked |-> FALSE]]

InitFlowIdle == flow = NoFlow /\ planner = NoPlanner

\* run(request) is invoked while the guard of run() holds: it appends the
\* request, enters state_context(RUNNING) and reaches the while loop.
Run(request) ==
    /\ run_allowed(state)
    /\ n_runs < env.runs
    /\ n_runs' = n_runs + 1
    /\ messages' = IF request # <<>>
                   THEN add_message(messages, max_messages, user_message(request))
                   ELSE messages
    /\ previous_state' = state
    /\ state' = "RUNNING"
    /\ pc' = "loop"
    /\ obs' = [NoObs EXCEPT !.run = "running"]
    /\ UNCHANGED <<current_step, max_messages, tool_calls, tool_choices,
                   next_step_prompt, call_idx, results, env, pvars, mvars, fvars, gvars>>

\* run(request) is invoked, by the first caller or by another task while a
\* run() is suspended, and the guard fails: it raises RuntimeError.
RunRejected(request) ==
    /\ ~run_allowed(state)
    /\ obs' = [obs EXCEPT !.rejected = TRUE]
    /\ UNCHANGED <<state, current_step, messages, max_messages, tool_calls,
                   tool_choices, next_step_prompt, pc, previous_state,
                   call_idx, results, n_runs, env, pvars, mvars, fvars, gvars>>

\* One more iteration: current_step += 1, step() calls think(), which appends
\* the step prompt with `self.messages += [user_msg]` (not add_message) and
\* awaits the model.
LoopStep ==
    /\ pc = "loop"
    /\ loop_cond(current_step, state)
    /\ current_step' = current_step + 1
    /\ messages' = IF next_step_prompt # <<>>
                   THEN Append(messages, user_message(next_step_prompt))
                   ELSE messages
    /\ pc' = "llm"
    /\ obs' = [obs EXCEPT !.think = "none"]
    /\ UNCHANGED <<state, max_messages, tool_calls, tool_choices, next_step_prompt,
                   previous_state, call_idx, results, n_runs, env, pvars, mvars, fvars, gvars>>

\* The while condition is false: the max-steps reset, then the exit of
\* state_context, then run() returns.
RunReturn ==
    /\ pc = "loop"
    /\ ~loop_cond(current_step, state)
    /\ LET maxed == current_step >= max_steps
       IN  /\ current_step' = IF maxed THEN 0 ELSE current_step
           /\ state' = state_context_exit(IF maxed THEN "IDLE" ELSE state,
                                          previous_state, FALSE)
           /\ obs' = [obs EXCEPT !.run = "returned"]
    /\ pc' = "idle"
    /\ UNCHANGED <<messages, max_messages, tool_calls, tool_choices, next_step_prompt,
                   previous_state, call_idx, results, n_runs, env, pvars, mvars, fvars, gvars>>

\* An exception leaves step(): state_context handles it and run() re-raises.
Raise(error, msgs, calls, thought) ==
    /\ state' = state_context_exit(state, previous_state, TRUE)
    /\ pc' = "idle"
    /\ messages' = msgs
    /\ tool_calls' = calls
    /\ obs' = [obs EXCEPT !.run = "raised", !.error = error, !.think = thought]
    /\ UNCHANGED <<current_step, max_messages, tool_choices, next_step_prompt,
                   previous_state, call_idx, results, n_runs, env, pvars, mvars, fvars, gvars>>

\* step() returns to run(): the stuck check, then back to the while condition.
StepReturns(msgs, calls, thought) ==
    /\ messages' = after_step(msgs, max_messages)
    /\ tool_calls' = calls
    /\ pc' = "loop"
    /\ obs' = [obs EXCEPT !.think = thought]
    /\ UNCHANGED <<state, current_step, max_messages, tool_choices, next_step_prompt,
                   previous_state, call_idx, results, n_runs, env, pvars, mvars, fvars, gvars>>

\* The model call raises: think() does not catch it (the call is outside its
\* try block).
LLMRaise ==
    /\ pc = "llm"
    /\ Raise(<<"llm">>, messages, tool_calls, "raised")

\* The model answers: the rest of think(), and act() up to its first awaited
\* tool.
LLMAnswers(content, calls) ==
    /\ pc = "llm"
    /\ LET t == think(messages, max_messages, tool_choices, content, calls)
           tc == think_tool_calls(tool_choices, calls)
       IN  IF ~t.should_act
           THEN StepReturns(t.messages, tc, "false")
           ELSE IF tc = <<>>
           THEN IF act_raises(tool_choices, tc)
                THEN Raise(TOOL_CALL_REQUIRED, t.messages, tc, "true")
                ELSE StepReturns(t.messages, tc, "true")
           ELSE /\ messages' = t.messages
                /\ tool_calls' = tc
                /\ call_idx' = 1
                /\ results' = <<>>
                /\ pc' = "tool"
                /\ obs' = [obs EXCEPT !.think = "true"]
                /\ UNCHANGED <<state, current_step, max_messages, tool_choices,
                               next_step_prompt, previous_state, n_runs, env, pvars, mvars, fvars, gvars>>

LLMRespond ==
    \E content \in Contents, calls \in CallSeqs(env.calls) : LLMAnswers(content, calls)

\* a bug: the calls are taken last first
act_command_reversed(calls, i) == calls[Len(calls) + 1 - i]

\* Which call the for loop of act() takes at position i
act_command(calls, i) == calls[i]

\* The tool message act() appends for a command and its result
act_tool_message(command, result) == tool_message(result, command.name, command.id)

\* One iteration of the for loop of act(): execute_tool(command) with the
\* awaited tool ending as `outcome`, then the tool message.
ExecTool(outcome) ==
    /\ pc = "tool"
    /\ call_idx <= Len(tool_calls)
    /\ LET command == act_command(tool_calls, call_idx)
           r == execute_tool(command, outcome, state)
           result == r.observation
       IN  /\ r.path \in {"invalid", "unknown", "json"} => outcome = "output"
           /\ state' = r.state
           /\ messages' = add_message(messages, max_messages,
                                      act_tool_message(command, result))
           /\ results' = Append(results, result)
           /\ obs' = [obs EXCEPT
                         !.exec = [name |-> command.name, id |-> command.id,
                                   path |-> r.path, before |-> state,
                                   after |-> r.state, observation |-> r.observation,
                                   raised |-> r.raised]]
    /\ call_idx' = call_idx + 1
    /\ UNCHANGED <<current_step, max_messages, tool_calls, tool_choices,
                   next_step_prompt, pc, previous_state, n_runs, env, pvars, mvars, fvars, gvars>>

\* The for loop of act() is over: act() and step() return (the locals of
\* act() are dropped).
ActReturn ==
    /\ pc = "tool"
    /\ call_idx > Len(tool_calls)
    /\ messages' = after_step(messages, max_messages)
    /\ pc' = "loop"
    /\ call_idx' = 1
    /\ results' = <<>>
    /\ UNCHANGED <<state, current_step, max_messages, tool_calls, tool_choices,
                   next_step_prompt, previous_state, obs, n_runs, env, pvars, mvars, fvars, gvars>>

NextAgent ==
    \/ \E request \in Requests : Run(request)
    \/ \E request \in Requests : RunRejected(request)
    \/ LoopStep
    \/ RunReturn
    \/ LLMRaise
    \/ LLMRespond
    \/ \E outcome \in ToolOutcome : ExecTool(outcome)
    \/ ActReturn

\* The run loop: up to MaxRuns calls of run(), calls rejected by the guard,
\* turns of at most one tool call.
Init ==
    /\ InitAgent /\ InitPlanIdle /\ InitMemoryIdle /\ InitFlowIdle
    /\ env.calls = 1
Next == NextAgent
Spec == Init /\ [][Next]_vars

\* The tool dispatch: one run() of an agent, turns of up to MaxCalls calls.
InitTools ==
    /\ InitAgent /\ InitPlanIdle /\ InitMemoryIdle /\ InitFlowIdle
    /\ env.runs = 1
    /\ state = "IDLE"

NextTools ==
    \/ \E request \in Requests : Run(request)
    \/ LoopStep
    \/ RunReturn
    \/ LLMRaise
    \/ LLMRespond
    \/ \E outcome \in ToolOutcome : ExecTool(outcome)
    \/ ActReturn

SpecTools == InitTools /\ [][NextTools]_vars

----------------------------------------------------------------------------
(* The Plan Store driven by commands *)

PlanIdInputs == {None, "p1", "p2"}
NoSteps == [kind |-> "none", items |-> <<>>]
StepsInputs ==
    { NoSteps, [kind |-> "list", items |-> <<>>],
      [kind |-> "notlist", items |-> <<>>], [kind |-> "badlist", items |-> <<>>],
      [kind |-> "list", items |-> <<"a", "b">>],
      [kind |-> "list", items |-> <<"a", "c">>],
      [kind |-> "list", items |-> <<"a", "b", "c">>] }
NoIndex == [none |-> TRUE, v |-> 0]
IndexInputs == {NoIndex} \cup {[none |-> FALSE, v |-> i] : i \in -1..3}
StatusInputs == {None, "not_started", "in_progress", "completed", "blocked"}
NotesInputs == {None, "n"}

\* one call of PlanningTool.execute: the store and the reply after it
Command(a) ==
    LET r == execute(plans, current_plan_id, a)
    IN  [plans |-> r.plans, current |-> r.current,
         reply |-> [n |-> reply.n + 1, command |-> a.command, ok |-> r.ok,
                    text |-> r.text]]

Create ==
    \E id \in PlanIdInputs, title \in {None, "T"}, steps \in StepsInputs :
        LET c == Command([NoArgs EXCEPT !.command = "create", !.plan_id = id,
                                        !.title = title, !.steps = steps])
        IN  /\ reply.n < MaxCmds
            /\ plans' = c.plans
            /\ current_plan_id' = c.current
            /\ reply' = c.reply
            /\ UNCHANGED <<avars, mvars, fvars, gvars>>

Update ==
    \E id \in PlanIdInputs, title \in {None, "U"}, steps \in StepsInputs :
        LET c == Command([NoArgs EXCEPT !.command = "update", !.plan_id = id,
                                        !.title = title, !.steps = steps])
        IN  /\ reply.n < MaxCmds
            /\ plans' = c.plans
            /\ current_plan_id' = c.current
            /\ reply' = c.reply
            /\ UNCHANGED <<avars, mvars, fvars, gvars>>

List ==
    LET c == Command([NoArgs EXCEPT !.command = "list"])
    IN  /\ reply.n < MaxCmds
        /\ plans' = c.plans
        /\ current_plan_id' = c.current
        /\ reply' = c.reply
        /\ UNCHANGED <<avars, mvars, fvars, gvars>>

Get ==
    \E id \in PlanIdInputs :
        LET c == Command([NoArgs EXCEPT !.command = "get", !.plan_id = id])
        IN  /\ reply.n < MaxCmds
            /\ plans' = c.plans
            /\ current_plan_id' = c.current
            /\ reply' = c.reply
            /\ UNCHANGED <<avars, mvars, fvars, gvars>>

SetActive ==
    \E id \in PlanIdInputs :
        LET c == Command([NoArgs EXCEPT !.command = "set_active", !.plan_id = id])
        IN  /\ reply.n < MaxCmds
            /\ plans' = c.plans
            /\ current_plan_id' = c.current
            /\ reply' = c.reply
            /\ UNCHANGED <<avars, mvars, fvars, gvars>>

MarkStep ==
    \E id \in PlanIdInputs, index \in IndexInputs, status \in StatusInputs,
       notes \in NotesInputs :
        LET c == Command([NoArgs EXCEPT !.command = "mark_step", !.plan_id = id,
                                        !.step_index = index, !.step_status = status,
                                        !.step_notes = notes])
        IN  /\ reply.n < MaxCmds
            /\ plans' = c.plans
            /\ current_plan_id' = c.current
            /\ reply' = c.reply
            /\ UNCHANGED <<avars, mvars, fvars, gvars>>

Delete ==
    \E id \in PlanIdInputs :
        LET c == Command([NoArgs EXCEPT !.command = "delete", !.plan_id = id])
        IN  /\ reply.n < MaxCmds
            /\ plans' = c.plans
            /\ current_plan_id' = c.current
            /\ reply' = c.reply
            /\ UNCHANGED <<avars, mvars, fvars, gvars>>

Unrecognized ==
    LET c == Command([NoArgs EXCEPT !.command = "bogus"])
    IN  /\ reply.n < MaxCmds
        /\ plans' = c.plans
        /\ current_plan_id' = c.current
        /\ reply' = c.reply
        /\ UNCHANGED <<avars, mvars, fvars, gvars>>

\* PlanningAgent._get_current_step_index (agent/planning.py): the plan is
\* read as the text of the get command, through ToolCollection.execute, which
\* turns a ToolError into a returned ToolFailure whose output is None.  The
\* lines after the first "Steps:" line are numbered from 0, and the number of
\* the first line holding the marker of not_started or in_progress is
\* handed to mark_step as the step index and returned; None is returned when
\* there is no plan id, no text, no anchor or no such line.
get_current_step_index(ps, cur, id) ==
    LET got == get_plan(ps, cur, id)
        lines == got.text
        anchors == {i \in 1..Len(lines) : lines[i] = <<"Steps:">>}
        steps_index == CHOOSE i \in anchors : \A j \in anchors : i <= j
        hits == {i \in (steps_index + 1)..Len(lines) :
                    \E k \in 1..Len(lines[i]) :
                        lines[i][k] \in {status_marker("not_started"),
                                         status_marker("in_progress")}}
        index == [none |-> FALSE,
                  v |-> (CHOOSE i \in hits : \A j \in hits : i <= j) - steps_index - 1]
        marked == mark_step(ps, cur, id, index, "in_progress", None)
    IN  IF Falsy(id) \/ ~got.ok \/ anchors = {} \/ hits = {}
        THEN [index |-> NoIndex, plans |-> ps]
        ELSE [index |-> index, plans |-> IF marked.ok THEN marked.plans ELSE ps]

\* think() of a PlanningAgent that holds this PlanningTool locates its step
AgentLocate ==
    \E id \in PlanIdInputs :
        LET r == get_current_step_index(plans, current_plan_id, id)
        IN  /\ reply.n < MaxCmds
            /\ plans' = r.plans
            /\ reply' = [n |-> reply.n + 1, command |-> "get_current_step_index",
                         ok |-> ~r.index.none,
                         text |-> IF r.index.none THEN <<>> ELSE <<ToStr(r.index.v)>>]
            /\ UNCHANGED <<avars, current_plan_id, mvars, fvars, gvars>>

InitPlan == InitAgentIdle /\ InitPlanIdle /\ InitMemoryIdle /\ InitFlowIdle
NextPlan ==
    \/ Create \/ Update \/ List \/ Get \/ SetActive \/ MarkStep \/ Delete
    \/ Unrecognized \/ AgentLocate
SpecPlan == InitPlan /\ [][NextPlan]_vars

----------------------------------------------------------------------------
(* A Memory driven by add_message alone *)

MessageInputs == { user_message(<<"x">>), assistant_message(<<"y">>) }

InitMemoryCap ==
    /\ state = "IDLE"
    /\ current_step = 0
    /\ messages = <<>>
    /\ max_messages \in 1..MaxCap
    /\ tool_calls = <<>>
    /\ tool_choices = "auto"
    /\ next_step_prompt = NEXT_STEP_PROMPT
    /\ pc = "idle"
    /\ previous_state = "IDLE"
    /\ call_idx = 1
    /\ results = <<>>
    /\ obs = NoObs
    /\ n_runs = 0
    /\ env = [runs |-> 1, calls |-> 1]
    /\ InitPlanIdle
    /\ added = <<>>
    /\ InitFlowIdle

\* memory.add_message(m)
AddMessage(m) ==
    /\ Len(added) < MaxAdds
    /\ messages' = add_message(messages, max_messages, m)
    /\ added' = Append(added, m)
    /\ UNCHANGED <<state, current_step, max_messages, tool_calls, tool_choices,
                   next_step_prompt, pc, previous_state, call_idx, results, obs,
                   n_runs, env, pvars, fvars, gvars>>

NextMemory == \E m \in MessageInputs : AddMessage(m)
SpecMemory == InitMemoryCap /\ [][NextMemory]_vars

----------------------------------------------------------------------------
(* PlanningFlow (app/flow/planning.py, app/flow/base.py) *)

\* the most executor runs one execute() is followed through
MaxExec == 4

\* PlanningFlow.active_plan_id; the source's default is "plan_<time>"
ACTIVE_PLAN_ID == "p1"

\* the default plan of _create_initial_plan for the request "task"
DEFAULT_TITLE == "Plan for: task"
DEFAULT_STEPS == <<"Analyze request", "Execute task", "Verify results">>

\* a bug: a blocked step counts as active
get_active_statuses_blocked == {"not_started", "in_progress", "blocked"}

\* a bug: a step in progress does not count as active
get_active_statuses_not_started == {"not_started"}

\* PlanStepStatus.get_active_statuses
get_active_statuses == {"not_started", "in_progress"}

\* The tool calls the model can return to _create_initial_plan, by kind:
\* "other" is a call of a tool not named planning, "badjson" a planning call
\* whose arguments do not parse, the rest are planning calls with the
\* arguments below (plan_id is overwritten with active_plan_id).
PlanCallKinds == {"other", "badjson", "create", "create_untitled", "list"}

planning_args(kind) ==
    CASE kind = "create" ->
            [NoArgs EXCEPT !.command = "create", !.plan_id = ACTIVE_PLAN_ID,
                           !.title = "T",
                           !.steps = [kind |-> "list", items |-> <<"a", "b">>]]
      [] kind = "create_untitled" ->
            [NoArgs EXCEPT !.command = "create", !.plan_id = ACTIVE_PLAN_ID,
                           !.steps = [kind |-> "list", items |-> <<"a", "b">>]]
      [] OTHER -> [NoArgs EXCEPT !.command = "list", !.plan_id = ACTIVE_PLAN_ID]

default_plan_args ==
    [NoArgs EXCEPT !.command = "create", !.plan_id = ACTIVE_PLAN_ID,
                   !.title = DEFAULT_TITLE,
                   !.steps = [kind |-> "list", items |-> DEFAULT_STEPS]]

\* _create_initial_plan after the awaited model call: the first planning
\* call whose arguments parse is executed and the method returns; when the
\* loop ends without one, the default plan is created.  `raised` says that
\* planning_tool.execute raised.
RECURSIVE create_initial_plan(_, _, _)
create_initial_plan(ps, cur, calls) ==
    IF calls = <<>>
    THEN LET r == execute(ps, cur, default_plan_args)
         IN  [plans |-> r.plans, current |-> r.current, raised |-> ~r.ok]
    ELSE IF Head(calls) \in {"other", "badjson"}
    THEN create_initial_plan(ps, cur, Tail(calls))
    ELSE LET r == execute(ps, cur, planning_args(Head(calls)))
         IN  [plans |-> r.plans, current |-> r.current, raised |-> ~r.ok]

\* the except branches of _get_current_step_info and _mark_step_completed:
\* step_statuses is padded with not_started up to position i and position i
\* is set
set_status_directly(statuses, i, status) ==
    [j \in 1..(IF i > Len(statuses) THEN i ELSE Len(statuses)) |->
        IF j = i THEN status
        ELSE IF j <= Len(statuses) THEN statuses[j] ELSE "not_started"]

\* a bug: the last active step is taken
first_active_last(plan) ==
    LET status(i) == IF i > Len(plan.step_statuses) THEN "not_started"
                     ELSE plan.step_statuses[i]
        active == {i \in 1..Len(plan.steps) : status(i) \in get_active_statuses}
    IN  IF active = {} THEN 0 ELSE CHOOSE i \in active : \A j \in active : i >= j

\* the position (from 1) of the first step whose status is active, 0 if none
first_active(plan) ==
    LET status(i) == IF i > Len(plan.step_statuses) THEN "not_started"
                     ELSE plan.step_statuses[i]
        active == {i \in 1..Len(plan.steps) : status(i) \in get_active_statuses}
    IN  IF active = {} THEN 0 ELSE CHOOSE i \in active : \A j \in active : i <= j

\* _get_current_step_info: the index of the first active step, marked
\* in_progress through the planning tool, or directly in the storage when
\* the tool raises
get_current_step_info(ps, cur, id) ==
    IF Falsy(id) \/ ~HasPlan(ps, id)
    THEN [index |-> NoIndex, plans |-> ps]
    ELSE LET k == PlanIndex(ps, id)
             i == first_active(ps[k])
             index == [none |-> FALSE, v |-> i - 1]
             r == mark_step(ps, cur, id, index, "in_progress", None)
         IN  IF i = 0 THEN [index |-> NoIndex, plans |-> ps]
             ELSE [index |-> index,
                   plans |-> IF r.ok THEN r.plans
                             ELSE [ps EXCEPT ![k].step_statuses =
                                      set_status_directly(@, i, "in_progress")]]

\* a bug: nothing is done when the planning tool raises
mark_step_completed_no_fallback(ps, cur, id, index) ==
    IF index.none THEN ps
    ELSE LET r == mark_step(ps, cur, id, index, "completed", None)
         IN  IF r.ok THEN r.plans ELSE ps

\* _mark_step_completed: through the planning tool, or directly in the
\* storage when the tool raises
\* a bug: the step is left blocked instead of completed
mark_step_completed_blocked(ps, cur, id, index) ==
    IF index.none THEN ps
    ELSE LET r == mark_step(ps, cur, id, index, "blocked", None)
         IN  IF r.ok THEN r.plans
             ELSE IF HasPlan(ps, id)
             THEN [ps EXCEPT ![PlanIndex(ps, id)].step_statuses =
                      set_status_directly(@, index.v + 1, "blocked")]
             ELSE ps

mark_step_completed(ps, cur, id, index) ==
    IF index.none THEN ps
    ELSE LET r == mark_step(ps, cur, id, index, "completed", None)
         IN  IF r.ok THEN r.plans
             ELSE IF HasPlan(ps, id)
             THEN [ps EXCEPT ![PlanIndex(ps, id)].step_statuses =
                      set_status_directly(@, index.v + 1, "completed")]
             ELSE ps

\* re.search(r"\[([A-Z_]+)\]", step) on the step texts of the model: the
\* group of the first bracketed run of upper-case letters and underscores,
\* None when the text has none (a lower-case tag does not match)
type_match(step) ==
    CASE step = "[SEARCH] a" -> "SEARCH"
      [] OTHER -> None

\* step_info["type"] of _get_current_step_info: the group, lower-cased
step_type(step) ==
    IF type_match(step) = None THEN None ELSE Lower(type_match(step))

\* a bug: the first agent stands in for a primary key that is not registered
primary_agent_or_first(agents, primary_agent_key) ==
    IF \E i \in 1..Len(agents) : agents[i] = primary_agent_key
    THEN primary_agent_key ELSE agents[1]

\* BaseFlow.primary_agent: agents.get(primary_agent_key), by key
primary_agent(agents, primary_agent_key) ==
    IF \E i \in 1..Len(agents) : agents[i] = primary_agent_key
    THEN primary_agent_key ELSE None

\* a bug: the configured executor keys are tried before the step type
get_executor_keys_first(agents, executor_keys, primary_agent_key, type) ==
    LET registered(k) == \E i \in 1..Len(agents) : agents[i] = k
        usable == {i \in 1..Len(executor_keys) : registered(executor_keys[i])}
    IN  IF usable # {}
        THEN executor_keys[CHOOSE i \in usable : \A j \in usable : i <= j]
        ELSE IF type # None /\ registered(type) THEN type
        ELSE primary_agent(agents, primary_agent_key)

\* PlanningFlow.get_executor, agents named by their keys
get_executor(agents, executor_keys, primary_agent_key, type) ==
    LET registered(k) == \E i \in 1..Len(agents) : agents[i] = k
        usable == {i \in 1..Len(executor_keys) : registered(executor_keys[i])}
    IN  IF type # None /\ registered(type) THEN type
        ELSE IF usable # {}
        THEN executor_keys[CHOOSE i \in usable : \A j \in usable : i <= j]
        ELSE primary_agent(agents, primary_agent_key)

\* BaseAgent.run as its caller sees it, from the call to the return or the
\* raise.  `how` is what ended the while loop, in step j: the agent became
\* FINISHED, current_step reached max_steps, or step() raised.  `inside` is
\* the state when the loop ended, `state` the state once state_context has
\* been left.
RunEnds == {"finished", "max_steps", "raised"}

run_result(st, cs, how, j) ==
    IF ~run_allowed(st)
    THEN [state |-> st, current_step |-> cs, raised |-> TRUE, inside |-> st,
          how |-> "rejected"]
    ELSE IF ~loop_cond(cs, "RUNNING") \/ how = "max_steps"
    THEN [state |-> state_context_exit("IDLE", st, FALSE), current_step |-> 0,
          raised |-> FALSE, inside |-> "IDLE", how |-> "max_steps"]
    ELSE IF how = "finished"
    THEN [state |-> state_context_exit(IF j >= max_steps THEN "IDLE" ELSE "FINISHED",
                                       st, FALSE),
          current_step |-> IF j >= max_steps THEN 0 ELSE j,
          raised |-> FALSE, inside |-> "FINISHED", how |-> how]
    ELSE [state |-> state_context_exit("RUNNING", st, TRUE), current_step |-> j,
          raised |-> TRUE, inside |-> "RUNNING", how |-> how]

\* the steps in which a run() entered with current_step = cs can end
RunSteps(cs) == IF cs >= max_steps THEN {max_steps} ELSE (cs + 1)..max_steps

\* the responses of the model to _create_initial_plan: up to two tool calls
FlowResponses ==
    {<<>>} \cup {<<a>> : a \in PlanCallKinds}
    \cup {<<a, b>> : a \in PlanCallKinds, b \in PlanCallKinds}

\* the plans a PlanningTool handed to the flow can hold under active_plan_id
StoredPlan(statuses) ==
    [plan_id |-> ACTIVE_PLAN_ID, title |-> "T", steps |-> <<"a", "b">>,
     step_statuses |-> statuses, step_notes |-> <<"", "">>]

FlowStores ==
    { <<>>,
      <<StoredPlan(<<"completed", "completed">>)>>,
      <<StoredPlan(<<"completed", "blocked">>)>>,
      <<StoredPlan(<<"blocked", "not_started">>)>>,
      <<StoredPlan(<<"not_started", "not_started">>)>>,
      <<[StoredPlan(<<"not_started", "not_started">>)
            EXCEPT !.steps = <<"[SEARCH] a", "[code] b">>]>> }

\* the agents a PlanningFlow is constructed with, by key and in the order of
\* the dict, with its executor keys (those passed as `executors`, or every
\* key of agents) and its primary agent key (the one passed, or the first
\* key of agents)
FlowConfigs ==
    { [agents |-> <<"default">>, executor_keys |-> <<"default">>,
       primary_agent_key |-> "default"],
      [agents |-> <<"manus", "search">>, executor_keys |-> <<"manus", "search">>,
       primary_agent_key |-> "manus"],
      [agents |-> <<"manus", "search">>, executor_keys |-> <<"ghost", "search">>,
       primary_agent_key |-> "manus"],
      [agents |-> <<"manus", "SEARCH">>, executor_keys |-> <<"ghost">>,
       primary_agent_key |-> "manus"],
      [agents |-> <<"manus">>, executor_keys |-> <<"manus">>,
       primary_agent_key |-> "ghost"] }

InitFlow ==
    /\ InitAgentIdle /\ InitMemoryIdle
    /\ planner = NoPlanner
    /\ \E c \in FlowConfigs :
          flow = [NoFlow EXCEPT
                    !.agents = c.agents, !.executor_keys = c.executor_keys,
                    !.primary_agent_key = c.primary_agent_key,
                    !.agent_steps = [k \in {c.agents[i] : i \in 1..Len(c.agents)} |-> 0]]
    /\ plans \in FlowStores
    /\ current_plan_id = (IF plans = <<>> THEN None ELSE ACTIVE_PLAN_ID)
    /\ reply = [n |-> 0, command |-> "none", ok |-> TRUE, text |-> <<>>]

\* execute(input_text) up to its first await: with an input, the model call
\* of _create_initial_plan; without, the step loop
FlowExecute(input) ==
    /\ flow.pc = "idle"
    /\ flow' = IF primary_agent(flow.agents, flow.primary_agent_key) = None
               THEN [flow EXCEPT !.pc = "done", !.input = input,
                                 !.result = "execution_failed"]
               ELSE [flow EXCEPT !.pc = IF input THEN "create" ELSE "locate",
                                 !.input = input,
                                 !.fresh = ~HasPlan(plans, ACTIVE_PLAN_ID)]
    /\ UNCHANGED <<avars, pvars, mvars, gvars>>

\* the model call of _create_initial_plan raises: execute() catches it
CreateLLMRaise ==
    /\ flow.pc = "create"
    /\ flow' = [flow EXCEPT !.pc = "done", !.response = {"raised"},
                            !.result = "execution_failed"]
    /\ UNCHANGED <<avars, pvars, mvars, gvars>>

\* the model answers _create_initial_plan; then the check of execute() that
\* the plan exists
CreateInitialPlan ==
    \E calls \in FlowResponses :
        LET r == create_initial_plan(plans, current_plan_id, calls)
        IN  /\ flow.pc = "create"
            /\ plans' = r.plans
            /\ current_plan_id' = r.current
            /\ flow' = [flow EXCEPT
                  !.response = {calls[i] : i \in 1..Len(calls)},
                  !.pc = IF r.raised \/ ~HasPlan(r.plans, ACTIVE_PLAN_ID)
                         THEN "done" ELSE "locate",
                  !.result = IF r.raised THEN "execution_failed"
                             ELSE IF ~HasPlan(r.plans, ACTIVE_PLAN_ID)
                             THEN "failed_to_create" ELSE @]
            /\ UNCHANGED <<avars, reply, mvars, gvars>>

\* the top of the while loop of execute(): _get_current_step_info, and the
\* exit to _finalize_plan when it finds no step
Locate ==
    LET r == get_current_step_info(plans, current_plan_id, ACTIVE_PLAN_ID)
    IN  /\ flow.pc = "locate"
        /\ plans' = r.plans
        /\ flow' = [flow EXCEPT
              !.current_step_index = r.index,
              !.step_type = IF r.index.none THEN None
                            ELSE step_type(PlanOf(plans, ACTIVE_PLAN_ID).steps[r.index.v + 1]),
              !.pc = IF r.index.none THEN "finalize" ELSE "run"]
        /\ UNCHANGED <<avars, current_plan_id, reply, mvars, gvars>>

\* get_executor for the located step, then _execute_step: the executor's
\* run(), _mark_step_completed when run() returned, then the FINISHED check
\* of execute().  Every agent of the flow is IDLE between runs, `state`
\* stands for the state of each; current_step is the executor's.
ExecuteStep ==
    \E how \in RunEnds, j \in 1..max_steps :
        LET executor == get_executor(flow.agents, flow.executor_keys,
                                     flow.primary_agent_key, flow.step_type)
            cs == flow.agent_steps[executor]
            rr == run_result(state, cs, how, j)
        IN  /\ flow.pc = "run"
            /\ j \in RunSteps(cs)
            /\ flow.n_exec < MaxExec
            /\ state' = rr.state
            /\ current_step' = rr.current_step
            /\ plans' = IF rr.raised THEN plans
                        ELSE mark_step_completed(plans, current_plan_id,
                                                 ACTIVE_PLAN_ID,
                                                 flow.current_step_index)
            /\ flow' = [flow EXCEPT
                  !.pc = IF rr.state = "FINISHED" THEN "done" ELSE "locate",
                  !.result = IF rr.state = "FINISHED" THEN "returned" ELSE @,
                  !.last_run = rr.how,
                  !.executor = executor,
                  !.agent_steps = [@ EXCEPT ![executor] = rr.current_step],
                  !.n_exec = @ + 1]
            /\ UNCHANGED <<messages, max_messages, tool_calls, tool_choices,
                           next_step_prompt, pc, previous_state, call_idx, results,
                           obs, n_runs, env, current_plan_id, reply, mvars, gvars>>

\* _finalize_plan: the summary of the model ("llm"), or, when that call
\* raises, of the primary agent's run(), or the fixed text when that raises
\* too; then execute() returns
Finalize ==
    \E how \in {"llm"} \cup RunEnds, j \in 1..max_steps :
        LET agent == primary_agent(flow.agents, flow.primary_agent_key)
            cs == flow.agent_steps[agent]
            rr == run_result(state, cs, how, j)
        IN  /\ flow.pc = "finalize"
            /\ j \in RunSteps(cs)
            /\ state' = (IF how = "llm" THEN state ELSE rr.state)
            /\ current_step' = (IF how = "llm" THEN current_step ELSE rr.current_step)
            /\ flow' = [flow EXCEPT
                  !.pc = "done", !.finalized = @ + 1, !.result = "returned",
                  !.agent_steps = IF how = "llm" THEN @
                                  ELSE [@ EXCEPT ![agent] = rr.current_step]]
            /\ UNCHANGED <<messages, max_messages, tool_calls, tool_choices,
                           next_step_prompt, pc, previous_state, call_idx, results,
                           obs, n_runs, env, pvars, mvars, gvars>>

NextFlow ==
    \/ \E input \in BOOLEAN : FlowExecute(input)
    \/ CreateLLMRaise
    \/ CreateInitialPlan
    \/ Locate
    \/ ExecuteStep
    \/ Finalize
SpecFlow == InitFlow /\ [][NextFlow]_vars

\* A PlanningFlow whose executor was given the same PlanningTool: while an
\* executor's run() is awaited, the command of one of its tool calls reaches
\* the Plan Store of the flow (one such command in an execute()).
ExecutorCommand == flow.pc = "run" /\ reply.n = 0 /\ NextPlan
SpecShared == InitPlan /\ [][ExecutorCommand \/ NextFlow]_vars

----------------------------------------------------------------------------
(* PlanningAgent (app/agent/planning.py): think() and act() around those of
   ToolCallAgent, with the step_execution_tracker *)

\* execute_tool of a PlanningAgent that was given PlanningTool, Bash and
\* Terminate: the planning calls of the model carry no arguments here, so
\* PlanningTool.execute(**{}) raises TypeError and the store is not touched.
planner_execute_tool(command, outcome, st) ==
    IF command.name = "planning"
    THEN [observation |-> <<"Error: ", "(!) Tool 'planning' encountered a problem: ",
                            "TypeError">>,
          state |-> st, path |-> "exception", raised |-> FALSE]
    ELSE execute_tool(command, outcome, st)

\* the for loop of ToolCallAgent.act from call i on: the agent's state and
\* Memory after it, and the branch execute_tool took for each call
RECURSIVE act_all(_, _, _, _, _, _)
act_all(calls, outcomes, i, st, msgs, cap) ==
    IF i > Len(calls) THEN [state |-> st, messages |-> msgs, paths |-> <<>>]
    ELSE LET r == planner_execute_tool(act_command(calls, i), outcomes[i], st)
             rest == act_all(calls, outcomes, i + 1, r.state,
                             add_message(msgs, cap,
                                         act_tool_message(calls[i], r.observation)),
                             cap)
         IN  [rest EXCEPT !.paths = <<r.path>> \o @]

\* the dict step_execution_tracker is a sequence of entries in insertion order
tracker_put(tracker, entry) ==
    IF \E k \in 1..Len(tracker) : tracker[k].id = entry.id
    THEN [k \in 1..Len(tracker) |->
             IF tracker[k].id = entry.id THEN entry ELSE tracker[k]]
    ELSE Append(tracker, entry)

\* a bug: every first tool call is recorded for the current step
track_every_call(tracker, result, calls, index) ==
    IF result /\ calls # <<>> /\ ~index.none
    THEN tracker_put(tracker, [id |-> calls[1].id, step_index |-> index.v,
                               tool_name |-> calls[1].name, status |-> "pending"])
    ELSE tracker

\* the end of PlanningAgent.think: the tracker entry for the first tool call
track(tracker, result, calls, index) ==
    IF result /\ calls # <<>>
       /\ calls[1].name # "planning"
       /\ calls[1].name \notin special_tool_names
       /\ ~index.none
    THEN tracker_put(tracker, [id |-> calls[1].id, step_index |-> index.v,
                               tool_name |-> calls[1].name, status |-> "pending"])
    ELSE tracker

\* the end of PlanningAgent.act: the entry of the first tool call is set to
\* completed whatever its execution returned
tracker_complete(tracker, calls) ==
    IF calls = <<>> THEN tracker
    ELSE [k \in 1..Len(tracker) |->
             IF tracker[k].id = calls[1].id
             THEN [tracker[k] EXCEPT !.status = "completed"] ELSE tracker[k]]

\* update_plan_status(tool_call_id): mark_step completed for the entry's step,
\* through ToolCollection.execute, which returns a ToolError as a ToolFailure
update_plan_status(ps, cur, id, tracker, tool_call_id) ==
    LET found == {k \in 1..Len(tracker) : tracker[k].id = tool_call_id}
        entry == tracker[CHOOSE k \in found : TRUE]
        marked == mark_step(ps, cur, id, [none |-> FALSE, v |-> entry.step_index],
                            "completed", None)
    IN  IF Falsy(id) \/ found = {} THEN ps
        ELSE IF entry.status # "completed" THEN ps
        ELSE IF marked.ok THEN marked.plans ELSE ps

\* the tool calls of the model in the turn after `turn` turns of this agent:
\* at most two, with ids that no other turn uses
PlannerCalls(turn) ==
    LET first == {<<"planning", "{}">>, <<"terminate", "">>, <<"bash", "{}">>,
                  <<"foo", "{}">>, <<"bash", "{bad">>}
        id(i) == CallIds[2 * turn + i]
    IN  {<<>>}
        \cup {<<ToolCall(id(1), f[1], f[2])>> : f \in first}
        \cup {<<ToolCall(id(1), f[1], f[2]), ToolCall(id(2), "bash", "{}")>> : f \in first}

\* a PlanningAgent whose PlanningTool holds one of the stores, before its one
\* run()
InitPlanner ==
    /\ InitAgent /\ InitMemoryIdle
    /\ state = "IDLE"
    /\ tool_choices = "auto"
    /\ env.runs = 1
    /\ flow = NoFlow
    /\ plans \in FlowStores
    /\ current_plan_id = (IF plans = <<>> THEN None ELSE ACTIVE_PLAN_ID)
    /\ reply = [n |-> 0, command |-> "none", ok |-> TRUE, text |-> <<>>]
    /\ planner \in {[NoPlanner EXCEPT !.active_plan_id = id] : id \in {None, ACTIVE_PLAN_ID}}

\* One iteration of run() up to the end of think(): the prompt is appended,
\* the step is located (and marked in_progress), ToolCallAgent.think appends
\* the step prompt and takes the model's answer, and the first tool call is
\* recorded in the tracker.  Without an action step() returns.
PlannerThink ==
    /\ pc = "loop"
    /\ loop_cond(current_step, state)
    /\ \E content \in Contents,
          calls \in PlannerCalls((n_runs - 1) * max_steps + current_step) :
        LET prompt == IF Falsy(planner.active_plan_id) THEN next_step_prompt
                      ELSE <<"CURRENT PLAN STATUS:">> \o next_step_prompt
            located == get_current_step_index(plans, current_plan_id,
                                              planner.active_plan_id)
            prompted == Append(Append(messages, user_message(prompt)),
                               user_message(next_step_prompt))
            t == think(prompted, max_messages, tool_choices, content, calls)
        IN  /\ current_step' = current_step + 1
            /\ plans' = located.plans
            /\ tool_calls' = think_tool_calls(tool_choices, calls)
            /\ planner' = [planner EXCEPT
                  !.current_step_index = located.index,
                  !.step_execution_tracker =
                      track(@, t.should_act, calls, located.index)]
            /\ messages' = IF t.should_act THEN t.messages
                           ELSE after_step(t.messages, max_messages)
            /\ pc' = IF t.should_act THEN "tool" ELSE "loop"
            /\ UNCHANGED <<state, max_messages, tool_choices, next_step_prompt,
                           previous_state, call_idx, results, obs, n_runs, env,
                           current_plan_id, reply, mvars, fvars>>

\* act(): every tool call of the turn is executed by ToolCallAgent.act, then
\* the tracker entry of the first call is completed and, unless that call is
\* a planning or special call, update_plan_status marks its step; then
\* step() returns.
PlannerAct ==
    \E outcomes \in [1..Len(tool_calls) -> ToolOutcome] :
        LET a == act_all(tool_calls, outcomes, 1, state, messages, max_messages)
            tracker == planner.step_execution_tracker
            known == tool_calls # <<>>
                     /\ \E k \in 1..Len(tracker) : tracker[k].id = tool_calls[1].id
            completed == IF known THEN tracker_complete(tracker, tool_calls)
                         ELSE tracker
            updates == known /\ tool_calls[1].name # "planning"
                       /\ tool_calls[1].name \notin special_tool_names
            after == IF updates
                     THEN update_plan_status(plans, current_plan_id,
                                             planner.active_plan_id, completed,
                                             tool_calls[1].id)
                     ELSE plans
        IN  /\ pc = "tool"
            /\ state' = a.state
            /\ messages' = after_step(a.messages, max_messages)
            /\ plans' = after
            /\ planner' = [planner EXCEPT
                  !.step_execution_tracker = completed,
                  !.act = [id |-> IF tool_calls = <<>> THEN None ELSE tool_calls[1].id,
                           path |-> IF tool_calls = <<>> THEN "none" ELSE a.paths[1],
                           index |-> planner.current_step_index,
                           marked |-> after # plans]]
            /\ pc' = "loop"
            /\ UNCHANGED <<current_step, max_messages, tool_calls, tool_choices,
                           next_step_prompt, previous_state, call_idx, results, obs,
                           n_runs, env, current_plan_id, reply, mvars, fvars>>

NextPlanner ==
    \/ Run(<<>>)
    \/ RunReturn
    \/ PlannerThink
    \/ PlannerAct
SpecPlanner == InitPlanner /\ [][NextPlanner]_vars

----------------------------------------------------------------------------
(* Claims about the run loop *)


\* C1: run() leaves its while loop only when the state is FINISHED or
\* current_step has reached max_steps, it starts another step only when
\* neither holds, and when it leaves with current_step at max_steps,
\* current_step is 0 and the state is IDLE once run() has returned.
C1_RunStops ==
    [][ /\ (pc = "loop" /\ pc' = "idle")
            => (state = "FINISHED" \/ current_step >= max_steps)
        /\ (pc = "loop" /\ pc' = "llm")
            => (state # "FINISHED" /\ current_step < max_steps
                /\ current_step' = current_step + 1)
        /\ (pc = "loop" /\ pc' = "idle" /\ current_step >= max_steps)
            => (current_step' = 0 /\ state' = "IDLE" /\ obs'.run = "returned")
      ]_vars

\* a run() that executed steps has returned after reaching max_steps
C1_Witness ==
    /\ pc = "idle" /\ obs.run = "returned" /\ obs.think # "none"
    /\ current_step = 0 /\ state = "IDLE"

C3_ErrorPersists == obs.run = "raised" => state = "ERROR"

----------------------------------------------------------------------------
(* Claims about the tool dispatch *)

IsErrorText(text) == \E i \in 1..Len(text) : text[i] = "Error: "

\* C5: execute_tool does not raise, and for an invalid call, an unknown
\* tool, malformed JSON arguments or a tool that raised, it returns an error
\* string and leaves the agent's state as it was.
C5_ExecuteToolContained ==
    /\ ~obs.exec.raised
    /\ (obs.exec.name = "foo" /\ obs.exec.path # "none")
          => obs.exec.observation = <<"Error: ", "Unknown tool '", "foo", "'">>
    /\ obs.exec.path \in {"invalid", "unknown", "json", "exception", "failure"}
          => (IsErrorText(obs.exec.observation) /\ obs.exec.after = obs.exec.before)

\* C6: inside act(), after k calls have been executed, the results are those
\* of the first k calls of the turn in the model's order, the last executed
\* call is call k, and Memory ends with one tool message per executed call,
\* in that order, each with the id and name of its call and its result.
C6_ActInOrder ==
    pc = "tool" =>
        LET k == call_idx - 1
            m == Min(k, max_messages)
            tail == LastN(messages, m)
        IN  /\ k <= Len(tool_calls)
            /\ Len(results) = k
            /\ k >= 1 => obs.exec.id = tool_calls[k].id
            /\ \A i \in 1..m :
                  /\ tail[i].role = "tool"
                  /\ tail[i].tool_call_id = tool_calls[k - m + i].id
                  /\ tail[i].name = tool_calls[k - m + i].name
                  /\ tail[i].content = results[k - m + i]
            /\ Len(messages) > k => messages[Len(messages) - k].role # "tool"

\* act() has executed the two calls of a turn
C6_Witness ==
    /\ pc = "tool" /\ Len(tool_calls) = 2 /\ call_idx = 3
    /\ tool_calls[1].name # tool_calls[2].name

\* C7: execute_tool moves the agent to FINISHED only for a special tool whose
\* execution succeeded.
C7_FinishOnlyOnSuccess ==
    (obs.exec.after = "FINISHED" /\ obs.exec.before # "FINISHED")
        => (is_special_tool(obs.exec.name) /\ obs.exec.path = "success")

\* C8: with tool-choice mode none no tool is executed.
C8_NoneExecutesNothing ==
    tool_choices = "none" => (pc # "tool" /\ obs.exec.path = "none")

\* C9: with mode required, a response without tool calls makes think()
\* return true and act() raise the 'tool calls required' error out of run();
\* Memory gains the assistant message and no tool message.
C9_RequiredWithoutCalls ==
    [][ ( /\ pc = "llm" /\ pc' # "llm"
          /\ tool_choices = "required"
          /\ obs'.think # "raised"
          /\ tool_calls' = <<>> )
        => /\ obs'.think = "true"
           /\ obs'.run = "raised"
           /\ obs'.error = TOOL_CALL_REQUIRED
           /\ \E content \in Contents :
                 messages' = add_message(messages, max_messages,
                                         assistant_message(content))
      ]_vars

\* run() has raised 'tool calls required'
C9_Witness ==
    /\ tool_choices = "required" /\ obs.run = "raised"
    /\ obs.error = TOOL_CALL_REQUIRED /\ obs.think = "true" /\ tool_calls = <<>>

----------------------------------------------------------------------------
(* Claims about the Plan Store *)

StepStatus == {"not_started", "in_progress", "completed", "blocked"}

Lines(text) == {text[i] : i \in 1..Len(text)}

\* C4: for every stored plan, every step_index in [0, len(steps)) and every
\* status, mark_step succeeds, sets that step's status (and its notes if
\* given) and nothing else, and a following get shows the step with the
\* marker of the status and a Progress line counting the completed steps.
C4_MarkStepEveryIndex ==
    \A k \in 1..Len(plans) :
      \A idx \in 0..(Len(plans[k].steps) - 1), status \in StepStatus,
         notes \in NotesInputs :
        LET id == plans[k].plan_id
            r == mark_step(plans, current_plan_id, id, [none |-> FALSE, v |-> idx],
                           status, notes)
            want == [plans[k] EXCEPT
                       !.step_statuses[idx + 1] = status,
                       !.step_notes[idx + 1] = IF notes = None THEN @ ELSE notes]
            g == get_plan(r.plans, r.current, id)
            completed == Cardinality({i \in 1..Len(want.steps) :
                                         want.step_statuses[i] = "completed"})
        IN  /\ r.ok
            /\ r.plans = [plans EXCEPT ![k] = want]
            /\ r.current = current_plan_id
            /\ g.ok
            /\ <<ToStr(idx), ". ", status_marker(status), " ", want.steps[idx + 1]>>
                  \in Lines(g.text)
            /\ g.text[Len(g.text)] =
                  <<"Progress: ", ToStr(completed), "/", ToStr(Len(want.steps)),
                    " steps completed">>

----------------------------------------------------------------------------
(* Claims about Memory *)

\* C10: after N calls of add_message on an empty Memory of capacity C (at
\* least 1), Memory holds min(N, C) messages, and they are the min(N, C)
\* most recent ones in the order they were added.
C10_MemoryFifo ==
    LET keep == Min(Len(added), max_messages)
    IN  /\ Len(messages) = keep
        /\ messages = LastN(added, keep)

\* more messages were added than Memory holds, and the oldest were evicted
C10_Witness ==
    /\ Len(added) > max_messages
    /\ Len(messages) = max_messages
    /\ messages[1] # added[1]

----------------------------------------------------------------------------
(* Claims about the stuck check *)

\* the contents of the last k messages of Memory
RecentContents(k) == {messages[i].content : i \in (Len(messages) - k + 1)..Len(messages)}

\* C11: is_stuck() is true exactly when Memory holds at least
\* duplicate_threshold messages and the last duplicate_threshold of them
\* have one and the same content; with fewer messages it is false.
C11_IsStuckIff ==
    /\ is_stuck(messages) <=>
          (/\ Len(messages) >= duplicate_threshold
           /\ Cardinality(RecentContents(duplicate_threshold)) = 1)
    /\ Len(messages) < duplicate_threshold => ~is_stuck(messages)

\* run() found the agent stuck after a step and handle_stuck_state added its
\* system message
C11_Witness ==
    /\ Len(messages) >= 1
    /\ messages[Len(messages)].role = "system"
    /\ messages[Len(messages)].content = STUCK_PROMPT

----------------------------------------------------------------------------
(* Claims about create, update and delete of the Plan Store *)

TitleInputs == {None, "T"}

\* C12: whatever the store holds, a create that succeeds appends one plan
\* with the given id, title and steps, every status not_started and every
\* note empty, makes it the active plan, and leaves the stored plans as
\* they were.
C12_CreateInitialises ==
    \A id \in PlanIdInputs, title \in TitleInputs, steps \in StepsInputs :
        LET r == create_plan(plans, current_plan_id, id, title, steps)
            new == r.plans[Len(r.plans)]
        IN  r.ok =>
              /\ Len(r.plans) = Len(plans) + 1
              /\ SubSeq(r.plans, 1, Len(plans)) = plans
              /\ new.plan_id = id /\ new.title = title /\ new.steps = steps.items
              /\ Len(new.step_statuses) = Len(new.steps)
              /\ Len(new.step_notes) = Len(new.steps)
              /\ \A i \in 1..Len(new.steps) :
                    new.step_statuses[i] = "not_started" /\ new.step_notes[i] = ""
              /\ r.current = id

\* a second plan was created while another plan, with a marked step, was
\* active
C12_Witness ==
    /\ reply.command = "create" /\ reply.ok
    /\ Len(plans) = 2
    /\ current_plan_id = plans[2].plan_id
    /\ \E i \in 1..Len(plans[1].steps) : plans[1].step_statuses[i] # "not_started"

\* C13: create fails when plan_id is missing, when the id is already stored,
\* when title is missing, or when steps is not a non-empty list of strings,
\* and in no other case; a failing create changes neither the stored plans
\* nor the active pointer.
C13_CreateRejects ==
    \A id \in PlanIdInputs, title \in TitleInputs, steps \in StepsInputs :
        LET r == create_plan(plans, current_plan_id, id, title, steps)
            bad == \/ id = None
                   \/ \E k \in 1..Len(plans) : plans[k].plan_id = id
                   \/ title = None
                   \/ steps.kind # "list" \/ steps.items = <<>>
        IN  /\ bad <=> ~r.ok
            /\ ~r.ok => (r.plans = plans /\ r.current = current_plan_id)

\* a create with the id of a stored plan was rejected while another plan was
\* the active one
C13_Witness ==
    /\ reply.command = "create" /\ ~reply.ok
    /\ reply.text[1] = "A plan with ID '"
    /\ Len(plans) = 2
    /\ current_plan_id # None
    /\ reply.text[2] # current_plan_id

\* C14: mark_step fails exactly when step_index is missing or outside
\* [0, len(steps)), step_status is missing, or no plan is resolved (no
\* plan_id and no active plan, or an id that is not stored); a failing
\* mark_step leaves the store as it was.
C14_MarkStepFailsExactly ==
    \A id \in PlanIdInputs, index \in IndexInputs, status \in StatusInputs,
       notes \in NotesInputs :
        LET r == mark_step(plans, current_plan_id, id, index, status, notes)
            target == IF id = None THEN current_plan_id ELSE id
            resolved == \E k \in 1..Len(plans) : plans[k].plan_id = target
            len == IF resolved
                   THEN Len((CHOOSE q \in {plans[k] : k \in 1..Len(plans)} :
                                q.plan_id = target).steps)
                   ELSE 0
            must_fail == \/ index.none
                         \/ status = None
                         \/ ~resolved
                         \/ index.v < 0 \/ index.v >= len
        IN  /\ must_fail <=> ~r.ok
            /\ ~r.ok => (r.plans = plans /\ r.current = current_plan_id)

C16_DeleteExactlyOne ==
    \A k \in 1..Len(plans) :
        LET id == plans[k].plan_id
            r == delete_plan(plans, current_plan_id, id)
            g == get_plan(r.plans, r.current, None)
        IN  /\ r.ok
            /\ Len(r.plans) = Len(plans) - 1
            /\ \A j \in 1..(k - 1) : r.plans[j] = plans[j]
            /\ \A j \in (k + 1)..Len(plans) : r.plans[j - 1] = plans[j]
            /\ \A j \in 1..Len(r.plans) : r.plans[j].plan_id # id
            /\ r.current = (IF current_plan_id = id THEN None ELSE current_plan_id)
            /\ current_plan_id = id => (~g.ok /\ g.plans = r.plans)

\* the active plan was deleted while another plan stays in the store
C16_Witness ==
    /\ reply.command = "delete" /\ reply.ok
    /\ Len(plans) = 1
    /\ current_plan_id = None

----------------------------------------------------------------------------
(* Claims about the Flow *)

\* the plan the flow works on, and whether every one of its steps is
\* completed or blocked
FlowPlan(ps) == CHOOSE q \in {ps[k] : k \in 1..Len(ps)} : q.plan_id = ACTIVE_PLAN_ID
FlowPlanStored(ps) == \E k \in 1..Len(ps) : ps[k].plan_id = ACTIVE_PLAN_ID
AllTerminal(ps) ==
    /\ FlowPlanStored(ps)
    /\ \A i \in 1..Len(FlowPlan(ps).steps) :
          FlowPlan(ps).step_statuses[i] \in {"completed", "blocked"}

\* C17: when the executor's run() for the located step has ended, whether it
\* returned or raised, that step is completed in the Plan Store before the
\* flow goes on.
C17_StepMarkedAfterRun ==
    [][ (flow.pc = "run" /\ flow'.pc # "run")
        => FlowPlan(plans').step_statuses[flow.current_step_index.v + 1] = "completed"
      ]_vars

\* C17 as amended: when the executor's run() for the located step has
\* returned, however its loop ended, that step (index 0 included) is
\* completed in the Plan Store and no other step has changed, before the
\* flow goes on; when run() raised, the store is left as it was, with the
\* step in_progress.
C17_StepMarkedAfterReturn ==
    [][ (flow.pc = "run" /\ flow'.pc # "run")
        => LET i == flow.current_step_index.v + 1
               old == FlowPlan(plans)
           IN  IF flow'.last_run \in {"raised", "rejected"}
               THEN plans' = plans /\ old.step_statuses[i] = "in_progress"
               ELSE /\ FlowPlan(plans').step_statuses[i] = "completed"
                    /\ FlowPlan(plans') =
                          [old EXCEPT !.step_statuses[i] = "completed"]
      ]_vars

\* the executor's run() for step 0 has returned and step 0 is completed
C17_Witness ==
    /\ flow.pc = "locate" /\ flow.n_exec = 1
    /\ flow.last_run \in {"finished", "max_steps"}
    /\ flow.current_step_index = [none |-> FALSE, v |-> 0]
    /\ FlowPlan(plans).step_statuses[1] = "completed"

\* C18: when the executor's run() for a step ended with the agent FINISHED,
\* execute() stops: it locates no further step and produces no finalize
\* summary.
C18_StopsWhenFinished ==
    [][ (flow.pc = "run" /\ flow'.n_exec = flow.n_exec + 1
         /\ flow'.last_run = "finished")
        => (flow'.pc = "done" /\ flow'.finalized = 0)
      ]_vars

\* C19: when the step loop is entered or re-entered with every step of the
\* plan completed or blocked, no executor is run and no step is changed; the
\* flow goes to the finalize summary, produces it once and returns.
C19_FinalizeOnce ==
    [][ /\ (flow.pc = "locate" /\ AllTerminal(plans))
            => (flow'.pc = "finalize" /\ flow'.n_exec = flow.n_exec
                /\ flow'.current_step_index.none /\ plans' = plans)
        /\ flow.pc = "finalize"
            => (flow'.pc = "done" /\ flow'.finalized = flow.finalized + 1
                /\ flow'.finalized = 1
                /\ flow'.n_exec = flow.n_exec /\ plans' = plans)
        /\ flow'.finalized > flow.finalized => flow.pc = "finalize"
      ]_vars

\* execute() without input on a stored plan whose steps are completed and
\* blocked has returned after one finalize summary and no executor run
C19_Witness ==
    /\ flow.pc = "done" /\ flow.finalized = 1 /\ flow.n_exec = 0
    /\ ~flow.input
    /\ FlowPlanStored(plans)
    /\ FlowPlan(plans).step_statuses = <<"completed", "blocked">>

\* C20: when execute() is given an input, the store holds no plan under the
\* flow's id, and the model's response holds no plan-creation call, then
\* after _create_initial_plan the store holds the default three-step plan
\* under that id, all not_started, and the flow enters the step loop.
C20_DefaultPlan ==
    [][ ( /\ flow.pc = "create" /\ flow'.pc # "create"
          /\ flow.fresh
          /\ flow'.response \cap {"raised", "create", "create_untitled"} = {} )
        => /\ flow'.pc = "locate"
           /\ Len(plans') = 1
           /\ plans'[1].plan_id = ACTIVE_PLAN_ID
           /\ plans'[1].steps = <<"Analyze request", "Execute task", "Verify results">>
           /\ plans'[1].step_statuses = <<"not_started", "not_started", "not_started">>
      ]_vars

----------------------------------------------------------------------------
(* Claims about the choice of the executor and the end of execute() *)

\* C21: the executor run for a located step is the agent registered under
\* the step's bracketed tag as written, when the text has a tag and an agent
\* is registered under it; otherwise the agent of the first executor key that
\* is registered; otherwise the primary agent; and it is a registered agent.
C21_ExecutorByTag ==
    [][ flow'.n_exec = flow.n_exec + 1
        => LET step == FlowPlan(plans).steps[flow.current_step_index.v + 1]
               tag == type_match(step)
               keys == {flow.agents[i] : i \in 1..Len(flow.agents)}
               usable == {i \in 1..Len(flow.executor_keys) : flow.executor_keys[i] \in keys}
           IN  /\ flow'.executor \in keys
               /\ IF tag # None /\ tag \in keys THEN flow'.executor = tag
                  ELSE IF usable # {}
                  THEN \E i \in usable : /\ flow'.executor = flow.executor_keys[i]
                                         /\ \A j \in usable : i <= j
                  ELSE flow'.executor = flow.primary_agent_key
      ]_vars

\* C21 as amended: the executor run for a located step is the agent
\* registered under the lower-cased tag, when the step text holds a
\* bracketed run of upper-case letters and underscores and an agent is
\* registered under its lower-cased form; otherwise the agent of the first
\* executor key that is registered; otherwise the primary agent; and it is a
\* registered agent.
C21_ExecutorByLoweredTag ==
    [][ flow'.n_exec = flow.n_exec + 1
        => LET step == FlowPlan(plans).steps[flow.current_step_index.v + 1]
               tag == type_match(step)
               keys == {flow.agents[i] : i \in 1..Len(flow.agents)}
               usable == {i \in 1..Len(flow.executor_keys) : flow.executor_keys[i] \in keys}
           IN  /\ flow'.executor \in keys
               /\ IF tag # None /\ Lower(tag) \in keys THEN flow'.executor = Lower(tag)
                  ELSE IF usable # {}
                  THEN \E i \in usable : /\ flow'.executor = flow.executor_keys[i]
                                         /\ \A j \in usable : i <= j
                  ELSE flow'.executor = flow.primary_agent_key
      ]_vars

\* the step "[SEARCH] a" has been run by the agent registered under search
\* although manus is the first executor key
C21_Witness ==
    /\ flow.n_exec = 1 /\ flow.executor = "search" /\ flow.step_type = "search"
    /\ flow.executor_keys = <<"manus", "search">>
    /\ flow.current_step_index = [none |-> FALSE, v |-> 0]

\* C22: on a plan of n steps execute() runs an executor at most n times: no
\* located step is executed twice, so the step loop ends.
C22_EachStepOnce ==
    FlowPlanStored(plans) => flow.n_exec <= Len(FlowPlan(plans).steps)

----------------------------------------------------------------------------
(* Claims about the agent across runs *)

\* C23: while a run() of the agent is inside its loop, suspended at the
\* model call or at a tool call included, the agent is not IDLE, so no
\* other invocation of run() passes the guard and enters the loop: at most
\* one run() loop is active.
C23_NoInterleaving ==
    [][ pc # "idle" => (state # "IDLE" /\ n_runs' = n_runs) ]_vars

\* run() was invoked while another run() was suspended, and was rejected
C23_Witness ==
    /\ pc \in {"llm", "tool"} /\ call_idx <= Len(tool_calls) + 1
    /\ state = "RUNNING" /\ obs.rejected /\ n_runs = 1

\* C24: 0 <= current_step <= max_steps in every state, whatever the runs
\* before ended with.
C24_StepBounded == current_step \in 0..max_steps

\* a second run() has just entered its loop with the current_step that the
\* first, ended FINISHED or with an exception, left above 0
C24_Witness ==
    /\ n_runs = 2 /\ pc = "loop" /\ obs = [NoObs EXCEPT !.run = "running"]
    /\ current_step > 0

\* C25: when the loop of run() ends because the agent is FINISHED, below
\* max_steps, run() returns with the state held before it was entered, which
\* is IDLE, and current_step as it was.
C25_FinishedRestoresIdle ==
    [][ (pc = "loop" /\ state = "FINISHED" /\ current_step < max_steps /\ pc' = "idle")
        => (state' = previous_state /\ state' = "IDLE"
            /\ current_step' = current_step /\ obs'.run = "returned")
      ]_vars

\* run() has returned after a special tool finished the agent in a step
\* below max_steps, and the agent is IDLE
C25_Witness ==
    /\ pc = "idle" /\ obs.run = "returned" /\ obs.exec.after = "FINISHED"
    /\ current_step \in 1..(max_steps - 1) /\ state = "IDLE"

----------------------------------------------------------------------------
(* Claims about the plans in the store *)

\* C26: every stored plan has as many statuses and as many notes as steps,
\* after any sequence of Plan Store commands and of step-marking operations
\* of the Flow.
C26_ListsAligned ==
    \A k \in 1..Len(plans) :
        /\ Len(plans[k].step_statuses) = Len(plans[k].steps)
        /\ Len(plans[k].step_notes) = Len(plans[k].steps)

\* C27: while execute() is the only writer of the plan it created, at most
\* one step of that plan is in_progress, in every state, after an executor
\* run that ended with an exception included.
C27_OneInProgress ==
    (flow.input /\ flow.fresh /\ FlowPlanStored(plans))
    => Cardinality({i \in 1..Len(FlowPlan(plans).step_statuses) :
                      FlowPlan(plans).step_statuses[i] = "in_progress"}) <= 1

\* the executor's run() for a step of the created plan raised, the step was
\* located again, and it is the one step in_progress
C27_Witness ==
    /\ flow.input /\ flow.fresh /\ flow.pc = "run" /\ flow.last_run = "raised"
    /\ FlowPlanStored(plans)
    /\ \E i \in 1..Len(FlowPlan(plans).step_statuses) :
          /\ FlowPlan(plans).step_statuses[i] = "in_progress"
          /\ flow.current_step_index.v = i - 1
          /\ \A j \in 1..Len(FlowPlan(plans).step_statuses) :
                j # i => FlowPlan(plans).step_statuses[j] # "in_progress"

----------------------------------------------------------------------------
(* Claims about Memory inside the agent *)

\* C28: in every state of the agent, inside think() and act() included,
\* Memory holds at most max_messages messages.
C28_MemoryWithinCapacity == Len(messages) <= max_messages

----------------------------------------------------------------------------
(* Claims about the step locators *)

\* C29: on a stored plan, the Flow's step locator returns the smallest index
\* whose status is not_started or in_progress, and none exactly when every
\* step is completed or blocked; a blocked step is never the one returned,
\* and the step an executor is run for is never blocked.
C29_LocatorFirstActive ==
    [][ /\ (flow.pc = "locate" /\ flow'.pc # "locate" /\ FlowPlanStored(plans))
           => LET st == FlowPlan(plans).step_statuses
                  open == {i \in 1..Len(st) : st[i] \in {"not_started", "in_progress"}}
                  found == flow'.current_step_index
              IN  /\ found.none <=> \A i \in 1..Len(st) : st[i] \in {"completed", "blocked"}
                  /\ ~found.none => /\ found.v + 1 \in open
                                    /\ \A i \in open : found.v + 1 <= i
                                    /\ st[found.v + 1] # "blocked"
        /\ flow'.n_exec = flow.n_exec + 1
           => FlowPlan(plans).step_statuses[flow.current_step_index.v + 1] # "blocked"
      ]_vars

\* the locator has passed over the blocked step 0 and returned step 1
C29_Witness ==
    /\ flow.pc = "run" /\ flow.n_exec = 0
    /\ flow.current_step_index = [none |-> FALSE, v |-> 1]
    /\ FlowPlan(plans).step_statuses = <<"blocked", "in_progress">>

\* C30: when the PlanningAgent's step locator returns index i on a stored
\* plan, step i exists and is in_progress in the store afterwards, for every
\* i including 0, and a second call returns the same index and leaves the
\* store as it is.
C30_AgentLocatorMarks ==
    \A k \in 1..Len(plans) :
        LET id == plans[k].plan_id
            first == get_current_step_index(plans, current_plan_id, id)
            again == get_current_step_index(first.plans, current_plan_id, id)
        IN  ~first.index.none
            => /\ first.index.v + 1 \in 1..Len(plans[k].steps)
               /\ first.plans[k].step_statuses[first.index.v + 1] = "in_progress"
               /\ again.index = first.index
               /\ again.plans = first.plans

\* C31: on every stored plan the text-based locator of the PlanningAgent and
\* the structured locator of the Flow select the same step: the same index,
\* or none both.
C31_LocatorsAgree ==
    \A k \in 1..Len(plans) :
        LET id == plans[k].plan_id
        IN  get_current_step_index(plans, current_plan_id, id).index
            = get_current_step_info(plans, current_plan_id, id).index

\* the step statuses of the plan a PlanningAgent works on
planner_statuses ==
    LET found == {k \in 1..Len(plans) : plans[k].plan_id = planner.active_plan_id}
    IN  IF found = {} THEN <<>>
        ELSE plans[CHOOSE k \in found : TRUE].step_statuses

\* C32: a tracker entry exists only for a call that is neither a planning nor
\* a special call and whose step index was known; an entry is pending exactly
\* while its call waits for act(), so it is completed only after act()
\* executed the call; and act() marks a step completed only for an entry that
\* is completed.
C32_TrackerDiscipline ==
    LET tracker == planner.step_execution_tracker
        waiting(id) == pc = "tool" /\ tool_calls # <<>> /\ tool_calls[1].id = id
    IN  /\ \A k \in 1..Len(tracker) :
               /\ tracker[k].tool_name # "planning"
               /\ tracker[k].tool_name \notin special_tool_names
               /\ (tracker[k].status = "pending") = waiting(tracker[k].id)
               /\ waiting(tracker[k].id)
                     => /\ ~planner.current_step_index.none
                        /\ planner.current_step_index.v = tracker[k].step_index
        /\ planner.act.marked
              => \E k \in 1..Len(tracker) :
                     /\ tracker[k].id = planner.act.id
                     /\ tracker[k].status = "completed"
                     /\ tracker[k].step_index = planner.act.index.v

\* act() has marked the step of a tracked call completed
C32_Witness ==
    /\ planner.act.marked
    /\ \E k \in 1..Len(planner.step_execution_tracker) :
           planner.step_execution_tracker[k].id = planner.act.id

\* C33: act() marks a step completed only if the tool call associated with it
\* was executed successfully.
C33_MarkedOnlyOnSuccess ==
    planner.act.marked => planner.act.path = "success"

\* C34: once act() has executed the tracked call of step i, step i of the plan
\* is completed, for every i, 0 included.
C34_TrackedStepCompleted ==
    LET tracker == planner.step_execution_tracker
    IN  \A k \in 1..Len(tracker) :
            tracker[k].status = "completed"
              => /\ tracker[k].step_index + 1 \in 1..Len(planner_statuses)
                 /\ planner_statuses[tracker[k].step_index + 1] = "completed"

\* C35: within one run(), once a special tool has set the state to FINISHED,
\* no tool call is executed any more (the later calls of the same turn
\* included) and no step() is started.
C35_NothingAfterFinished ==
    [][(state = "FINISHED" /\ pc \in {"loop", "llm", "tool"})
         => /\ current_step' <= current_step
            /\ Len(results') <= Len(results)]_vars

\* C36: whenever the agent is IDLE and no run() is in progress, current_step
\* is 0, so that the next run() has max_steps steps.
C36_IdleAtStepZero ==
    (pc = "idle" /\ state = "IDLE") => current_step = 0

\* C37: a Plan Store command that fails leaves the store as it was: the plans
\* and the active pointer are those of before the command.
C37_FailureChangesNothing ==
    [][(reply'.n # reply.n /\ ~reply'.ok)
         => (plans' = plans /\ current_plan_id' = current_plan_id)]_vars

\* C38: the active plan pointer is unset or the id of a plan in the store.
C38_ActivePointerValid ==
    current_plan_id = None
    \/ \E k \in 1..Len(plans) : plans[k].plan_id = current_plan_id

\* the pointer names a stored plan after a delete command went through
C38_Witness ==
    /\ reply.command = "delete" /\ reply.ok
    /\ current_plan_id # None
    /\ \E k \in 1..Len(plans) : plans[k].plan_id = current_plan_id

\* how many steps of a plan are completed
completed_count(ps) ==
    IF FlowPlanStored(ps)
    THEN Cardinality({i \in 1..Len(FlowPlan(ps).step_statuses) :
                         FlowPlan(ps).step_statuses[i] = "completed"})
    ELSE 0

\* C39: while one execute() is the only writer of the plan it created, every
\* step before an in_progress or completed step is completed, and no step of
\* execute() lowers the number of completed steps.
C39_CompletedInOrder ==
    [][(flow'.input /\ flow'.fresh /\ FlowPlanStored(plans'))
         => /\ \A i \in 1..Len(FlowPlan(plans').step_statuses) :
                  FlowPlan(plans').step_statuses[i] \in {"in_progress", "completed"}
                    => \A j \in 1..(i - 1) :
                          FlowPlan(plans').step_statuses[j] = "completed"
            /\ completed_count(plans') >= completed_count(plans)]_vars

\* a step of the created plan is completed and the next one is in_progress
C39_Witness ==
    /\ flow.input /\ flow.fresh /\ FlowPlanStored(plans)
    /\ \E i \in 2..Len(FlowPlan(plans).step_statuses) :
          /\ FlowPlan(plans).step_statuses[i] = "in_progress"
          /\ FlowPlan(plans).step_statuses[i - 1] = "completed"

\* C40: execute() ends with a returned string, the failure strings for a
\* missing primary agent, a failed plan creation and any other exception
\* included; and when the primary key names no agent of the flow, no plan is
\* created, the store is left alone and no step is executed.
C40_ExecuteReturns ==
    [][/\ flow'.pc = "done"
          => flow'.result \in {"returned", "failed_to_create", "execution_failed"}
       /\ (\A i \in 1..Len(flow.agents) : flow.agents[i] # flow.primary_agent_key)
          => /\ plans' = plans /\ current_plan_id' = current_plan_id
             /\ flow'.n_exec = 0 /\ flow'.response = {}
             /\ flow'.pc = "done" /\ flow'.result = "execution_failed"]_vars

\* execute(input) of a flow without primary agent has returned its failure
C40_Witness ==
    /\ flow.pc = "done" /\ flow.input /\ flow.result = "execution_failed"
    /\ \A i \in 1..Len(flow.agents) : flow.agents[i] # flow.primary_agent_key
    /\ flow.n_exec = 0

====
